---- MODULE Spec2Model ----
(***************************************************************************)
(* Model of the carousel home screen (HomeScreen component): slide list,   *)
(* navigation, pointer gestures, keyboard, session-start modal, idle       *)
(* cursor timer and image preload cache.                                   *)
(*                                                                         *)
(* The component's reactive fields are the VARIABLES.  Every function of   *)
(* the component is an operator from a state record to a state record, so  *)
(* that a handler's calls compose exactly as they do in the source; an     *)
(* action applies one handler (and the watcher it triggers) to the current *)
(* state.                                                                  *)
(***************************************************************************)
EXTENDS Integers, Sequences, FiniteSets

VARIABLES
    slidesSource,       \* number of discovered promo slides (slidesSource.length)
    containerWidth,     \* containerWidth ref (pixels)
    allowTransition,    \* allowTransition ref
    trackPosition,      \* trackPosition ref
    currentIndex,       \* currentIndex ref
    dragOffset,         \* dragOffset ref (pixels)
    isAnimating,        \* isAnimating ref
    isPointerDown,      \* isPointerDown ref
    isDragging,         \* isDragging ref
    pointerId,          \* pointerId ref (NoPointer models null)
    dragStartX,         \* dragStartX ref
    isModalOpen,        \* isModalOpen ref
    isStartingSession,  \* isStartingSession ref (busy flag)
    modalError,         \* modalError ref
    cursorHidden,       \* cursorHidden ref
    cursorTimer,        \* TRUE while a cursor-idle timeout is pending
    preloadCache,       \* preloadCache Set, as the sequence of its entries in insertion order
    rafPending,         \* TRUE while the requestAnimationFrame callback of the reset watcher is pending
    fetches,            \* the session-start requests in flight, oldest first, each pending or settled
    mounted,            \* TRUE between onMounted and onBeforeUnmount
    effects             \* the trace of the last step, in order: the functions it entered
                        \* (handlePointerUp, goNext, confirmStart, closeModal, ...) and what it did to the
                        \* outside (pointer capture and release, modal opened, track slid to
                        \* an index, fetch, router push, image request)

vars == <<slidesSource, containerWidth, allowTransition, trackPosition, currentIndex,
          dragOffset, isAnimating, isPointerDown, isDragging, pointerId, dragStartX,
          isModalOpen, isStartingSession, modalError, cursorHidden, cursorTimer,
          preloadCache, rafPending, fetches, mounted, effects>>

(***************************************************************************)
(* Bounds of the model and inputs of the environment.                      *)
(***************************************************************************)
\* numbers of discovered promo slides: none, one (up to MaxSlides), and the
\* five of the documented drag scenario
MaxSlides == 1
ScenarioSlides == 5
SlideCounts == (0..MaxSlides) \cup {ScenarioSlides}

\* clientWidth values of the carousel root: 0 (not laid out), 80 (25% = 20px),
\* 600 (25% = 150px)
Widths == {0, 80, 600}

\* clientX values of pointer events
Xs == {0, 20, 41, 200}

NoPointer == 0
PointerIds == {1}

Keys == {"ArrowRight", "ArrowLeft", "Enter", "Escape", "a"}
\* the keys held down long enough to auto-repeat
RepeatKeys == {"Enter"}

\* messages of the failure paths
ServerMessage == "Camera offline"
fallbackMessage == "Failed to start the photo session. Please try again."
unexpectedMessage == "Unexpected error starting session."
TransportMessage == "Failed to fetch"

\* body.message of a non-2xx response: a string, or "" when absent, empty or the body malformed
PayloadMessages == {ServerMessage, ""}
\* message of the error a rejected fetch carries
RejectMessages == {TransportMessage, ""}

\* a request in flight, and the ways it can settle: a 2xx response, a non-2xx
\* response, a rejection
PendingFetch == [status |-> "pending", ok |-> FALSE, message |-> ""]
Outcomes ==
    {[status |-> "fulfilled", ok |-> TRUE, message |-> ""]}
    \cup {[status |-> "fulfilled", ok |-> FALSE, message |-> m] : m \in PayloadMessages}
    \cup {[status |-> "rejected", ok |-> FALSE, message |-> m] : m \in RejectMessages}

\* program constants
maxPreloadCacheSize == 50
MaxDragThreshold == 160
TapSlop == 20

Abs(x) == IF x < 0 THEN -x ELSE x
Min(a, b) == IF a < b THEN a ELSE b
SeqToSet(q) == {q[i] : i \in 1..Len(q)}
RemoveAt(q, i) == SubSeq(q, 1, i - 1) \o SubSeq(q, i + 1, Len(q))

(***************************************************************************)
(* The state record and its transfer to and from the variables.            *)
(***************************************************************************)
State ==
    [slidesSource |-> slidesSource, containerWidth |-> containerWidth,
     allowTransition |-> allowTransition, trackPosition |-> trackPosition,
     currentIndex |-> currentIndex, dragOffset |-> dragOffset,
     isAnimating |-> isAnimating, isPointerDown |-> isPointerDown,
     isDragging |-> isDragging, pointerId |-> pointerId, dragStartX |-> dragStartX,
     isModalOpen |-> isModalOpen, isStartingSession |-> isStartingSession,
     modalError |-> modalError, cursorHidden |-> cursorHidden,
     cursorTimer |-> cursorTimer, preloadCache |-> preloadCache,
     rafPending |-> rafPending, fetches |-> fetches, mounted |-> mounted,
     effects |-> effects]

Start(t) ==
    /\ slidesSource = t.slidesSource
    /\ containerWidth = t.containerWidth
    /\ allowTransition = t.allowTransition
    /\ trackPosition = t.trackPosition
    /\ currentIndex = t.currentIndex
    /\ dragOffset = t.dragOffset
    /\ isAnimating = t.isAnimating
    /\ isPointerDown = t.isPointerDown
    /\ isDragging = t.isDragging
    /\ pointerId = t.pointerId
    /\ dragStartX = t.dragStartX
    /\ isModalOpen = t.isModalOpen
    /\ isStartingSession = t.isStartingSession
    /\ modalError = t.modalError
    /\ cursorHidden = t.cursorHidden
    /\ cursorTimer = t.cursorTimer
    /\ preloadCache = t.preloadCache
    /\ rafPending = t.rafPending
    /\ fetches = t.fetches
    /\ mounted = t.mounted
    /\ effects = t.effects

Apply(t) ==
    /\ slidesSource' = t.slidesSource
    /\ containerWidth' = t.containerWidth
    /\ allowTransition' = t.allowTransition
    /\ trackPosition' = t.trackPosition
    /\ currentIndex' = t.currentIndex
    /\ dragOffset' = t.dragOffset
    /\ isAnimating' = t.isAnimating
    /\ isPointerDown' = t.isPointerDown
    /\ isDragging' = t.isDragging
    /\ pointerId' = t.pointerId
    /\ dragStartX' = t.dragStartX
    /\ isModalOpen' = t.isModalOpen
    /\ isStartingSession' = t.isStartingSession
    /\ modalError' = t.modalError
    /\ cursorHidden' = t.cursorHidden
    /\ cursorTimer' = t.cursorTimer
    /\ preloadCache' = t.preloadCache
    /\ rafPending' = t.rafPending
    /\ fetches' = t.fetches
    /\ mounted' = t.mounted
    /\ effects' = t.effects

\* s after an entry <<what, arg>> of the trace of the step
Did(s, what, arg) == [s EXCEPT !.effects = Append(@, <<what, arg>>)]

\* the number of entries named what in a trace, and their arguments in order
Count(trace, what) == Cardinality({i \in 1..Len(trace) : trace[i][1] = what})
ArgsOf(trace, what) ==
    LET Pick[i \in 0..Len(trace)] ==
            IF i = 0 THEN <<>>
            ELSE IF trace[i][1] = what THEN Append(Pick[i - 1], trace[i][2])
            ELSE Pick[i - 1]
    IN  Pick[Len(trace)]

(***************************************************************************)
(* Slide list.                                                             *)
(***************************************************************************)
hasRealSlides(s) == s.slidesSource > 0

\* slides.value.length: the promo slides, or the single placeholder slide
totalSlides(s) == IF hasRealSlides(s) THEN s.slidesSource ELSE 1

\* src of the slide at idx: the asset URLs are distinct non-empty strings,
\* modelled as the positive numbers 1..n
SlideSrc(idx) == idx + 1

(***************************************************************************)
(* Cursor timer and modal.                                                 *)
(***************************************************************************)
resetCursorTimer(s) ==
    LET cleared == [s EXCEPT !.cursorHidden = FALSE, !.cursorTimer = FALSE]
    IN  IF cleared.isModalOpen
        THEN cleared
        ELSE [cleared EXCEPT !.cursorTimer = TRUE]

\* openModal without its clearTimeout: the idle countdown keeps running
openModalKeepTimer(s) ==
    IF s.isModalOpen
    THEN s
    ELSE [Did(s, "open", 0) EXCEPT !.cursorHidden = FALSE,
                                  !.modalError = "",
                                  !.isModalOpen = TRUE]

openModal(s) ==
    IF s.isModalOpen
    THEN s
    ELSE [Did(s, "open", 0) EXCEPT !.cursorTimer = FALSE,
                                  !.cursorHidden = FALSE,
                                  !.modalError = "",
                                  !.isModalOpen = TRUE]

\* closeModal that leaves the error text in place
closeModalKeepError(s) ==
    LET called == Did(s, "closeModal", 0)
    IN  IF called.isStartingSession
        THEN called
        ELSE resetCursorTimer([called EXCEPT !.isModalOpen = FALSE])

\* closeModal without the guard against a request in flight
closeModalWhileBusy(s) ==
    resetCursorTimer([Did(s, "closeModal", 0) EXCEPT !.modalError = "",
                                                    !.isModalOpen = FALSE])

closeModal(s) ==
    LET called == Did(s, "closeModal", 0)
    IN  IF called.isStartingSession
        THEN called
        ELSE resetCursorTimer([called EXCEPT !.modalError = "", !.isModalOpen = FALSE])

(***************************************************************************)
(* Session start.  confirmStart runs up to its await of fetch; the rest of *)
(* it runs once the fetch has settled: confirmStartFulfilled when a        *)
(* response arrived, confirmStartRejected when the fetch failed.           *)
(***************************************************************************)
\* confirmStart without the guard against a request in flight
confirmStartUnguarded(s) ==
    [Did(Did(s, "confirmStart", 0), "fetch", 0) EXCEPT
         !.modalError = "",
         !.isStartingSession = TRUE,
         !.fetches = Append(@, PendingFetch)]

confirmStart(s) ==
    LET called == Did(s, "confirmStart", 0)
    IN  IF called.isStartingSession
        THEN called
        ELSE [Did(called, "fetch", 0) EXCEPT !.modalError = "",
                                            !.isStartingSession = TRUE,
                                            !.fetches = Append(@, PendingFetch)]

\* catch (error) that shows the generic text whatever the error says
confirmStartCatchGeneric(s, message) ==
    [s EXCEPT !.modalError = unexpectedMessage]

\* catch (error): error.message when it is a non-empty string, else the generic text
confirmStartCatch(s, message) ==
    [s EXCEPT !.modalError = IF message # "" THEN message ELSE unexpectedMessage]

\* finally
confirmStartFinally(s) ==
    [s EXCEPT !.isStartingSession = FALSE]

\* confirmStartFulfilled without the check of response.ok
confirmStartFulfilledUnchecked(s, ok, payloadMessage) ==
    [Did(s, "push", 0) EXCEPT !.isModalOpen = FALSE, !.isStartingSession = FALSE]

\* the fetch resolved with a response: ok is response.ok, payloadMessage is the
\* message of the parsed body ("" when the body has none or does not parse)
confirmStartFulfilled(s, ok, payloadMessage) ==
    IF ~ok
    THEN confirmStartFinally(
             confirmStartCatch(s,
                 IF payloadMessage # "" THEN payloadMessage ELSE fallbackMessage))
    ELSE confirmStartFinally([Did(s, "push", 0) EXCEPT !.isModalOpen = FALSE])

\* the fetch rejected with an error whose message is errorMessage
confirmStartRejected(s, errorMessage) ==
    confirmStartFinally(confirmStartCatch(s, errorMessage))

\* the continuation of the confirmStart call whose fetch is the i-th in flight
confirmStartSettled(s, i) ==
    LET fetch == s.fetches[i]
        resumed == [s EXCEPT !.fetches = RemoveAt(@, i)]
    IN  IF fetch.status = "rejected"
        THEN confirmStartRejected(resumed, fetch.message)
        ELSE confirmStartFulfilled(resumed, fetch.ok, fetch.message)

(***************************************************************************)
(* Navigation.                                                             *)
(***************************************************************************)
\* goNext without the check of the last index
goNextPastEnd(s) ==
    LET total == totalSlides(s)
        called == Did(s, "goNext", 0)
    IN  IF ~hasRealSlides(s) \/ total <= 1 THEN called
        ELSE IF s.isAnimating THEN called
        ELSE [Did(called, "slideTo", s.currentIndex + 1) EXCEPT
                  !.allowTransition = TRUE,
                  !.dragOffset = 0,
                  !.isAnimating = TRUE,
                  !.currentIndex = s.currentIndex + 1,
                  !.trackPosition = s.currentIndex + 1]

\* goNext without the check of the animating flag
goNextWhileAnimating(s) ==
    LET total == totalSlides(s)
        called == Did(s, "goNext", 0)
    IN  IF ~hasRealSlides(s) \/ total <= 1 THEN called
        ELSE IF s.currentIndex >= total - 1 THEN called
        ELSE [Did(called, "slideTo", s.currentIndex + 1) EXCEPT
                  !.allowTransition = TRUE,
                  !.dragOffset = 0,
                  !.isAnimating = TRUE,
                  !.currentIndex = s.currentIndex + 1,
                  !.trackPosition = s.currentIndex + 1]

\* goNext as a ring: past the last slide comes the first, whatever the slide count
goNextWrapping(s) ==
    LET total == totalSlides(s)
        called == Did(s, "goNext", 0)
    IN  IF s.isAnimating THEN called
        ELSE [Did(called, "slideTo", (s.currentIndex + 1) % total) EXCEPT
                  !.allowTransition = TRUE,
                  !.dragOffset = 0,
                  !.isAnimating = TRUE,
                  !.currentIndex = (s.currentIndex + 1) % total,
                  !.trackPosition = (s.currentIndex + 1) % total]

goNext(s) ==
    LET total == totalSlides(s)
        called == Did(s, "goNext", 0)
    IN  IF ~hasRealSlides(s) \/ total <= 1 THEN called
        ELSE IF s.isAnimating THEN called
        ELSE IF s.currentIndex >= total - 1 THEN called
        ELSE [Did(called, "slideTo", s.currentIndex + 1) EXCEPT
                  !.allowTransition = TRUE,
                  !.dragOffset = 0,
                  !.isAnimating = TRUE,
                  !.currentIndex = s.currentIndex + 1,
                  !.trackPosition = s.currentIndex + 1]

goPrev(s) ==
    LET total == totalSlides(s)
        called == Did(s, "goPrev", 0)
    IN  IF ~hasRealSlides(s) \/ total <= 1 THEN called
        ELSE IF s.isAnimating THEN called
        ELSE IF s.currentIndex <= 0 THEN called
        ELSE [Did(called, "slideTo", s.currentIndex - 1) EXCEPT
                  !.allowTransition = TRUE,
                  !.dragOffset = 0,
                  !.isAnimating = TRUE,
                  !.currentIndex = s.currentIndex - 1,
                  !.trackPosition = s.currentIndex - 1]

finishTransitionIfNeeded(s) ==
    IF ~s.isAnimating THEN s
    ELSE [s EXCEPT !.isAnimating = FALSE]

\* pointerThreshold without the || 160: a quarter of the width, whatever it is
pointerThresholdNoFallback(s) ==
    Min(4 * MaxDragThreshold, s.containerWidth)

\* pointerThreshold is min(160, containerWidth * 0.25 || 160), a fraction of a
\* pixel for most widths.  The model keeps it exact by working with four times
\* its value: 4 * pointerThreshold = min(640, containerWidth), or 640 when
\* containerWidth * 0.25 is 0.
pointerThresholdTimes4(s) ==
    Min(4 * MaxDragThreshold,
        IF s.containerWidth = 0 THEN 4 * MaxDragThreshold ELSE s.containerWidth)

\* Math.abs(deltaX) < pointerThreshold.value
belowPointerThreshold(s, deltaX) ==
    4 * Abs(deltaX) < pointerThresholdTimes4(s)

(***************************************************************************)
(* Pointer gestures.                                                       *)
(***************************************************************************)
\* resetDragState that leaves the drag offset as it is
resetDragStateKeepOffset(s) ==
    [s EXCEPT !.isDragging = FALSE,
              !.isPointerDown = FALSE,
              !.pointerId = NoPointer]

resetDragState(s) ==
    [s EXCEPT !.dragOffset = 0,
              !.isDragging = FALSE,
              !.isPointerDown = FALSE,
              !.pointerId = NoPointer]

\* event.currentTarget.releasePointerCapture(pointerId.value), when a pointer is held
releasePointer(s) ==
    IF s.pointerId # NoPointer
    THEN Did(s, "release", s.pointerId)
    ELSE s

handlePointerDown(s, id, clientX) ==
    IF s.isModalOpen THEN s
    ELSE Did([resetCursorTimer(s) EXCEPT !.isPointerDown = TRUE,
                                         !.pointerId = id,
                                         !.dragStartX = clientX,
                                         !.dragOffset = 0,
                                         !.isDragging = FALSE,
                                         !.allowTransition = FALSE],
             "capture", id)

\* handlePointerMove that lets the animation run on when dragging starts
handlePointerMoveKeepAnimating(s, clientX) ==
    IF ~s.isPointerDown \/ s.isModalOpen THEN s
    ELSE LET deltaX == clientX - s.dragStartX
             started == IF ~s.isDragging /\ Abs(deltaX) > TapSlop
                        THEN [s EXCEPT !.isDragging = TRUE]
                        ELSE s
         IN  IF started.isDragging
             THEN [started EXCEPT !.dragOffset = deltaX]
             ELSE started

handlePointerMove(s, clientX) ==
    IF ~s.isPointerDown \/ s.isModalOpen THEN s
    ELSE LET deltaX == clientX - s.dragStartX
             started == IF ~s.isDragging /\ Abs(deltaX) > TapSlop
                        THEN [s EXCEPT !.isDragging = TRUE, !.isAnimating = FALSE]
                        ELSE s
         IN  IF started.isDragging
             THEN [started EXCEPT !.dragOffset = deltaX]
             ELSE started

\* triggerNavigationForDrag with the two directions exchanged
triggerNavigationForDragReversed(s, deltaX) ==
    LET total == totalSlides(s)
        snapBack == [s EXCEPT !.allowTransition = TRUE, !.dragOffset = 0]
    IN  IF ~hasRealSlides(s) \/ total <= 1
        THEN [state |-> snapBack, navigated |-> FALSE]
        ELSE IF belowPointerThreshold(s, deltaX)
        THEN [state |-> snapBack, navigated |-> FALSE]
        ELSE IF deltaX < 0
        THEN [state |-> goPrev(s), navigated |-> TRUE]
        ELSE [state |-> goNext(s), navigated |-> TRUE]

\* the state the function leaves and the value it returns
triggerNavigationForDrag(s, deltaX) ==
    LET total == totalSlides(s)
        snapBack == [s EXCEPT !.allowTransition = TRUE, !.dragOffset = 0]
    IN  IF ~hasRealSlides(s) \/ total <= 1
        THEN [state |-> snapBack, navigated |-> FALSE]
        ELSE IF belowPointerThreshold(s, deltaX)
        THEN [state |-> snapBack, navigated |-> FALSE]
        ELSE IF deltaX < 0
        THEN [state |-> goNext(s), navigated |-> TRUE]
        ELSE [state |-> goPrev(s), navigated |-> TRUE]

\* the tap branches without the else if: a gesture that entered dragging mode
\* is never a tap
tapToOpenUnlessDragged(s, wasDragging, deltaX, navigated) ==
    IF ~wasDragging /\ ~navigated /\ ~s.isModalOpen
    THEN openModal(s)
    ELSE s

\* the tap branches of handlePointerUp (the if / else if around openModal)
tapToOpen(s, wasDragging, deltaX, navigated) ==
    IF ~wasDragging /\ ~navigated /\ ~s.isModalOpen
    THEN openModal(s)
    ELSE IF wasDragging /\ Abs(deltaX) <= TapSlop /\ ~navigated /\ ~s.isModalOpen
    THEN openModal(s)
    ELSE s

handlePointerUp(s, clientX) ==
    IF ~s.isPointerDown THEN s
    ELSE LET deltaX == clientX - s.dragStartX
             released == releasePointer(Did(s, "handlePointerUp", 0))
             nav == IF s.isDragging
                    THEN triggerNavigationForDrag(released, deltaX)
                    ELSE [state |-> released, navigated |-> FALSE]
             tapped == tapToOpen(nav.state, s.isDragging, deltaX, nav.navigated)
             settled == IF ~nav.navigated /\ ~tapped.isModalOpen
                        THEN [tapped EXCEPT !.allowTransition = TRUE, !.dragOffset = 0]
                        ELSE tapped
         IN  resetCursorTimer(resetDragState(settled))

\* handlePointerCancel that leaves the transition disabled
handlePointerCancelNoTransition(s) ==
    IF ~s.isPointerDown THEN s
    ELSE resetCursorTimer(
             resetDragState(
                 [releasePointer(Did(s, "handlePointerCancel", 0)) EXCEPT !.dragOffset = 0]))

handlePointerCancel(s) ==
    IF ~s.isPointerDown THEN s
    ELSE resetCursorTimer(
             resetDragState(
                 [releasePointer(Did(s, "handlePointerCancel", 0)) EXCEPT
                      !.allowTransition = TRUE, !.dragOffset = 0]))

handlePointerLeave(s, clientX) ==
    IF ~s.isPointerDown THEN s
    ELSE handlePointerUp(Did(s, "handlePointerLeave", 0), clientX)

(***************************************************************************)
(* Keyboard.                                                               *)
(***************************************************************************)
handleKeydown(s, key, repeat) ==
    IF repeat THEN s
    ELSE CASE key = "ArrowRight" -> IF ~s.isModalOpen THEN goNext(s) ELSE s
           [] key = "ArrowLeft"  -> IF ~s.isModalOpen THEN goPrev(s) ELSE s
           [] key = "Enter"      -> IF s.isModalOpen THEN confirmStart(s) ELSE openModal(s)
           [] key = "Escape"     -> IF s.isModalOpen THEN closeModal(s) ELSE s
           [] OTHER              -> s

(***************************************************************************)
(* Watchers and lifecycle.                                                 *)
(***************************************************************************)
\* watch([hasRealSlides, totalSlides], ..., {immediate: true}): the slide list
\* is fixed once the component is set up, so the watcher runs once, at setup
resetWatcher(s) ==
    [s EXCEPT !.allowTransition = FALSE,
              !.trackPosition = 0,
              !.currentIndex = 0,
              !.dragOffset = 0,
              !.isAnimating = FALSE,
              !.rafPending = TRUE]

\* preloadSlide that makes room by dropping the entry it has just added
preloadSlideEvictNewest(s, idx) ==
    LET src == SlideSrc(idx)
    IN  IF src \in SeqToSet(s.preloadCache)
        THEN s
        ELSE [Did(s, "preload", src) EXCEPT
                 !.preloadCache =
                     IF Len(@) + 1 > maxPreloadCacheSize THEN @ ELSE Append(@, src)]

\* the body of indices.forEach in the preload watcher
preloadSlide(s, idx) ==
    LET src == SlideSrc(idx)
    IN  IF src \in SeqToSet(s.preloadCache)
        THEN s
        ELSE LET added == Append(s.preloadCache, src)
                 firstEntry == Head(added)
             IN  [Did(s, "preload", src) EXCEPT
                      !.preloadCache =
                          IF Len(added) > maxPreloadCacheSize /\ firstEntry # 0
                          THEN Tail(added)
                          ELSE added]

\* watch(() => [currentIndex, hasRealSlides], ..., {immediate: true})
preloadWatcher(s) ==
    IF ~hasRealSlides(s) THEN s
    ELSE LET total == totalSlides(s)
             current == s.currentIndex
         IN  preloadSlide(
                 preloadSlide(
                     preloadSlide(s, current),
                     (current + 1) % total),
                 (current - 1 + total) % total)

updateBounds(s, clientWidth) ==
    [s EXCEPT !.containerWidth = clientWidth]

\* the refs as declared, then the two immediate watchers
setup(n) ==
    preloadWatcher(resetWatcher(
        [slidesSource |-> n, containerWidth |-> 0, allowTransition |-> TRUE,
         trackPosition |-> 0, currentIndex |-> 0, dragOffset |-> 0,
         isAnimating |-> FALSE, isPointerDown |-> FALSE, isDragging |-> FALSE,
         pointerId |-> NoPointer, dragStartX |-> 0, isModalOpen |-> FALSE,
         isStartingSession |-> FALSE, modalError |-> "", cursorHidden |-> FALSE,
         cursorTimer |-> FALSE, preloadCache |-> <<>>, rafPending |-> FALSE,
         fetches |-> <<>>, mounted |-> FALSE, effects |-> <<>>]))

onMounted(s, clientWidth) ==
    resetCursorTimer([updateBounds(s, clientWidth) EXCEPT !.mounted = TRUE])

onBeforeUnmount(s) ==
    [s EXCEPT !.mounted = FALSE,
              !.cursorTimer = FALSE,
              !.preloadCache = <<>>]

\* the callback of the cursor-idle setTimeout
cursorTimerFired(s) ==
    [s EXCEPT !.cursorHidden = TRUE, !.cursorTimer = FALSE]

\* the requestAnimationFrame callback of the reset watcher
animationFrame(s) ==
    [s EXCEPT !.allowTransition = TRUE, !.rafPending = FALSE]

(***************************************************************************)
(* Actions: one per event the component handles.                           *)
(***************************************************************************)
\* the state a handler starts from: nothing done to the outside yet
Fresh == [State EXCEPT !.effects = <<>>]

\* the state a handler leaves, after the preload watcher its change of the
\* current index triggers
Handled(t) ==
    Apply(IF t.currentIndex # currentIndex THEN preloadWatcher(t) ELSE t)

PointerDown(id, clientX) ==
    /\ mounted
    /\ Handled(handlePointerDown(Fresh, id, clientX))

PointerMove(clientX) ==
    /\ mounted
    /\ Handled(handlePointerMove(Fresh, clientX))

PointerUp(clientX) ==
    /\ mounted
    /\ Handled(handlePointerUp(Fresh, clientX))

PointerCancel ==
    /\ mounted
    /\ Handled(handlePointerCancel(Fresh))

PointerLeave(clientX) ==
    /\ mounted
    /\ Handled(handlePointerLeave(Fresh, clientX))

\* a keydown on the window
KeyDown(key, repeat) ==
    /\ mounted
    /\ Handled(handleKeydown(Fresh, key, repeat))

\* a click on the Ya button, rendered with the modal and disabled while busy
ClickConfirm ==
    /\ mounted
    /\ isModalOpen
    /\ ~isStartingSession
    /\ Handled(confirmStart(Fresh))

\* a click on the Batal button, rendered with the modal and disabled while busy
ClickCancel ==
    /\ mounted
    /\ isModalOpen
    /\ ~isStartingSession
    /\ Handled(closeModal(Fresh))

TransitionEnd ==
    /\ mounted
    /\ Handled(finishTransitionIfNeeded(Fresh))

Resize(clientWidth) ==
    /\ mounted
    /\ Handled(updateBounds(Fresh, clientWidth))

CursorTimeout ==
    /\ cursorTimer
    /\ Handled(cursorTimerFired(Fresh))

AnimationFrame ==
    /\ rafPending
    /\ Handled(animationFrame(Fresh))

\* the network settles the i-th request in flight: a response or a failure
FetchSettles(i, outcome) ==
    /\ i \in 1..Len(fetches)
    /\ fetches[i].status = "pending"
    /\ Apply([Fresh EXCEPT !.fetches[i] = outcome])

\* the confirmStart call awaiting the i-th request resumes
ConfirmStartResumes(i) ==
    /\ i \in 1..Len(fetches)
    /\ fetches[i].status # "pending"
    /\ Handled(confirmStartSettled(Fresh, i))

Unmount ==
    /\ mounted
    /\ Handled(onBeforeUnmount(Fresh))

Init ==
    \E n \in SlideCounts, w \in Widths : Start(onMounted(setup(n), w))

Next ==
    \/ \E id \in PointerIds, x \in Xs : PointerDown(id, x)
    \/ \E x \in Xs : PointerMove(x)
    \/ \E x \in Xs : PointerUp(x)
    \/ PointerCancel
    \/ \E x \in Xs : PointerLeave(x)
    \/ \E key \in Keys : KeyDown(key, FALSE)
    \/ \E key \in RepeatKeys : KeyDown(key, TRUE)
    \/ ClickConfirm
    \/ ClickCancel
    \/ TransitionEnd
    \/ \E w \in Widths : Resize(w)
    \/ CursorTimeout
    \/ AnimationFrame
    \/ \E i \in 1..Len(fetches), outcome \in Outcomes : FetchSettles(i, outcome)
    \/ \E i \in 1..Len(fetches) : ConfirmStartResumes(i)
    \/ Unmount

Spec == Init /\ [][Next]_vars

(***************************************************************************)
(* The carousel with one slide more than the preload cache holds, walked   *)
(* with the arrow keys: the specification of the cache's eviction.         *)
(***************************************************************************)
ManySlides == maxPreloadCacheSize + 1

InitPreload ==
    Start(onMounted(setup(ManySlides), 600))

NextPreload ==
    \/ KeyDown("ArrowRight", FALSE)
    \/ KeyDown("ArrowLeft", FALSE)
    \/ TransitionEnd
    \/ Unmount

SpecPreload == InitPreload /\ [][NextPreload]_vars

(***************************************************************************)
(* The carousel under drag gestures alone, over container widths on both   *)
(* sides of 640px (25% = 160px) and displacements on both sides of the     *)
(* thresholds: the specification of the navigation threshold.              *)
(***************************************************************************)
\* clientWidth values: 0 (not laid out), 80 (25% = 20px), 600 (25% = 150px),
\* 640 (25% = 160px), 800 (25% = 200px)
DragWidths == {0, 80, 600, 640, 800}

\* clientX values of the pointer events of a drag
DragXs == {0, 20, 41, 150, 160, 200}

InitDrag ==
    \E w \in DragWidths : Start(onMounted(setup(ScenarioSlides), w))

NextDrag ==
    \/ \E id \in PointerIds, x \in DragXs : PointerDown(id, x)
    \/ \E x \in DragXs : PointerMove(x)
    \/ \E x \in DragXs : PointerUp(x)
    \/ TransitionEnd
    \/ ClickCancel

SpecDrag == InitDrag /\ [][NextDrag]_vars

(***************************************************************************)
(* The carousel with two slides more than the preload cache holds, walked  *)
(* from the first slide to the last with ArrowRight.                       *)
(***************************************************************************)
MoreSlides == maxPreloadCacheSize + 2

InitPreloadForward ==
    Start(onMounted(setup(MoreSlides), 600))

NextPreloadForward ==
    \/ KeyDown("ArrowRight", FALSE)
    \/ TransitionEnd
    \/ Unmount

SpecPreloadForward == InitPreloadForward /\ [][NextPreloadForward]_vars

TypeOK ==
    /\ slidesSource \in SlideCounts
    /\ containerWidth \in Widths
    /\ currentIndex \in Int
    /\ fetches \in Seq(Outcomes \cup {PendingFetch})

(***************************************************************************)
(* Properties.                                                             *)
(***************************************************************************)
\* the step just taken entered the function named what
Entered(what) == Count(effects', what) > 0

\* the step the drag's direction asks for: leftward is next, rightward is previous
Direction(deltaX) == IF deltaX < 0 THEN 1 ELSE -1

\* C1: in every reachable state the current index lies in 0 .. slide count - 1
C1_IndexInRange ==
    /\ currentIndex >= 0
    /\ currentIndex <= totalSlides(State) - 1

\* a drag past the threshold was just released at the last slide, where goNext
\* refused it (the transition is still off, nothing was animating)
C1_Witness ==
    /\ mounted
    /\ slidesSource >= 2
    /\ currentIndex = slidesSource - 1
    /\ effects = <<<<"handlePointerUp", 0>>, <<"release", 1>>, <<"goNext", 0>>>>
    /\ ~isAnimating
    /\ ~allowTransition

C3_DragAlwaysNavigates ==
    [][\A x \in Xs :
          (/\ isPointerDown /\ isDragging
           /\ totalSlides(State) >= 2
           /\ 4 * Abs(x - dragStartX) > pointerThresholdTimes4(State)
           /\ Entered("handlePointerUp") /\ PointerUp(x))
          => /\ currentIndex' = currentIndex + Direction(x - dragStartX)
             /\ Count(effects', "open") = 0
             /\ isModalOpen' = isModalOpen]_vars

\* C3 amended: such a pointer-up never opens the modal and moves the index one
\* step in the drag's direction, unless an animation is in progress or the
\* index is already the last (leftward) or the first (rightward): then the
\* index stays
C3_DragNavigatesUnlessRefused ==
    [][\A x \in Xs :
          (/\ isPointerDown /\ isDragging
           /\ totalSlides(State) >= 2
           /\ 4 * Abs(x - dragStartX) > pointerThresholdTimes4(State)
           /\ Entered("handlePointerUp") /\ PointerUp(x))
          => LET step == Direction(x - dragStartX)
                 refused == \/ isAnimating
                            \/ currentIndex + step < 0
                            \/ currentIndex + step > totalSlides(State) - 1
             IN  /\ currentIndex' = (IF refused THEN currentIndex ELSE currentIndex + step)
                 /\ Count(effects', "open") = 0
                 /\ isModalOpen' = isModalOpen]_vars

\* the documented scenario has just happened: five slides, width 600, a drag
\* that started at x = 200 was released to the left and moved the index from 2
\* to 3, modal closed
C3_Witness ==
    /\ slidesSource = 5
    /\ containerWidth = 600
    /\ dragStartX = 200
    /\ currentIndex = 3
    /\ ~isModalOpen
    /\ effects = <<<<"handlePointerUp", 0>>, <<"release", 1>>, <<"goNext", 0>>,
                   <<"slideTo", 3>>>>

\* what an aborted gesture leaves: flags cleared, no offset, transition enabled
GestureAborted ==
    /\ ~isPointerDown'
    /\ ~isDragging'
    /\ dragOffset' = 0
    /\ allowTransition'
    /\ currentIndex' = currentIndex
    /\ isModalOpen' = isModalOpen

C5_NavigationNoOps ==
    [][LET total == totalSlides(State)
           nextRefused == total < 2 \/ isAnimating \/ currentIndex >= total - 1
           prevRefused == total < 2 \/ isAnimating \/ currentIndex <= 0
       IN  /\ (/\ ~isModalOpen /\ nextRefused
               /\ Entered("goNext") /\ KeyDown("ArrowRight", FALSE))
              => UNCHANGED <<currentIndex, isAnimating, dragOffset, allowTransition>>
           /\ (/\ ~isModalOpen /\ prevRefused
               /\ Entered("goPrev") /\ KeyDown("ArrowLeft", FALSE))
              => UNCHANGED <<currentIndex, isAnimating, dragOffset, allowTransition>>
           /\ (nextRefused /\ Entered("goNext"))
              => UNCHANGED <<currentIndex, isAnimating>>
           /\ (prevRefused /\ Entered("goPrev"))
              => UNCHANGED <<currentIndex, isAnimating>>]_vars

\* goNext was just called at the first of several slides while the move back
\* to it was still animating, and did nothing
C5_Witness ==
    /\ slidesSource >= 2
    /\ currentIndex = 0
    /\ isAnimating
    /\ effects = <<<<"goNext", 0>>>>

\* C6: with at most one slide the index is 0 and the animating flag is clear
C6_SingleSlideNeverNavigates ==
    totalSlides(State) <= 1 => (currentIndex = 0 /\ ~isAnimating)

\* with no promo slide (the placeholder alone) a gesture in dragging mode was
\* just released more than 20px from its start
C6_Witness ==
    /\ slidesSource = 0
    /\ ~isModalOpen
    /\ effects = <<<<"handlePointerUp", 0>>, <<"release", 1>>>>

\* the last n entries of a sequence
LastN(q, n) == IF Len(q) <= n THEN q ELSE SubSeq(q, Len(q) - n + 1, Len(q))

\* C7: the preload cache never holds more than 50 entries, and after a step
\* that requests images it holds the newest 50 of its former entries followed
\* by the requested ones: what is evicted is what was inserted earliest
C7_CacheBoundedOldestEvicted ==
    /\ [](Len(preloadCache) <= maxPreloadCacheSize)
    /\ [][LET requested == ArgsOf(effects', "preload")
          IN  requested # <<>>
              => preloadCache' = LastN(preloadCache \o requested, maxPreloadCacheSize)]_vars

\* the cache is full and the 51st insertion, of the image of slide 49, has just
\* evicted the first entry ever inserted (the image of slide 0)
C7_Witness ==
    /\ Len(preloadCache) = maxPreloadCacheSize
    /\ Head(preloadCache) = SlideSrc(1)
    /\ ArgsOf(effects, "preload") = <<SlideSrc(49)>>

\* the i-th request in flight has settled with a 2xx response
SettledOk(i) == fetches[i].status = "fulfilled" /\ fetches[i].ok
\* the i-th request in flight has settled otherwise: a non-2xx response or a failure
SettledFailed(i) == fetches[i].status # "pending" /\ ~SettledOk(i)

\* C8: when confirmStart resumes on a 2xx response the modal closes and one
\* router push is made; a router push is made in no other step
C8_SuccessNavigatesOnce ==
    [][/\ \A i \in 1..Len(fetches) :
             (SettledOk(i) /\ Len(fetches') < Len(fetches) /\ ConfirmStartResumes(i))
             => (~isModalOpen' /\ Count(effects', "push") = 1)
       /\ Count(effects', "push") > 0
          => \E i \in 1..Len(fetches) : SettledOk(i) /\ ConfirmStartResumes(i)]_vars

\* the router push of a successful request has just been made
C8_Witness ==
    /\ effects = <<<<"push", 0>>>>
    /\ ~isModalOpen
    /\ ~isStartingSession
    /\ fetches = <<>>

\* what a failed request leaves, all but the message
FailureKeepsModal ==
    /\ isModalOpen'
    /\ ~isStartingSession'
    /\ Count(effects', "push") = 0
    /\ modalError' # ""

\* C9 as stated: when confirmStart resumes on a failed request the modal stays
\* open, busy is cleared, no push is made, and the message shown is the one of
\* the response when it has one, else one of the generic texts
C9_FailureShowsServerOrGenericMessage ==
    [][\A i \in 1..Len(fetches) :
          (SettledFailed(i) /\ Len(fetches') < Len(fetches) /\ ConfirmStartResumes(i))
          => /\ FailureKeepsModal
             /\ IF fetches[i].status = "fulfilled" /\ fetches[i].message # ""
                THEN modalError' = fetches[i].message
                ELSE modalError' \in {fallbackMessage, unexpectedMessage}]_vars

\* C9 amended: the same, but the message shown after a network failure is the
\* message of the error the fetch rejected with, when it has one; the generic
\* texts are shown for a non-2xx response without a message (fallbackMessage)
\* and for an error without a message (unexpectedMessage)
C9_FailureShowsErrorMessage ==
    [][\A i \in 1..Len(fetches) :
          (SettledFailed(i) /\ Len(fetches') < Len(fetches) /\ ConfirmStartResumes(i))
          => /\ FailureKeepsModal
             /\ modalError' =
                   (IF fetches[i].message # "" THEN fetches[i].message
                    ELSE IF fetches[i].status = "fulfilled" THEN fallbackMessage
                    ELSE unexpectedMessage)]_vars

\* the message of a failed response is on display in the open modal, busy cleared
C9_Witness ==
    /\ modalError = ServerMessage
    /\ isModalOpen
    /\ ~isStartingSession
    /\ fetches = <<>>
    /\ effects = <<>>

\* C10: at most one session-start request is in flight; a step issues no more
\* requests than it has confirm presses made while not busy (so none without
\* a press), and a confirm press while busy changes nothing of the session
C10_OneRequestAtATime ==
    /\ [](Len(fetches) <= 1)
    /\ [][/\ Count(effects', "fetch")
             <= (IF isStartingSession THEN 0 ELSE Count(effects', "confirmStart"))
          /\ (isStartingSession /\ Entered("confirmStart"))
             => UNCHANGED <<fetches, isStartingSession, isModalOpen, modalError>>]_vars

\* a confirm press has just been ignored: a request is in flight
C10_Witness ==
    /\ isStartingSession
    /\ Len(fetches) = 1
    /\ effects = <<<<"confirmStart", 0>>>>

\* C11: whenever the modal is open the cursor is shown and no idle countdown
\* is pending
C11_NoCursorHidingWhileModalOpen ==
    isModalOpen => (~cursorHidden /\ ~cursorTimer)

\* a gesture begun before the modal was opened with Enter has just been
\* released under the open modal
C11_Witness ==
    /\ isModalOpen
    /\ ~cursorHidden
    /\ ~cursorTimer
    /\ Count(effects, "handlePointerUp") = 1
    /\ Count(effects, "open") = 0

\* a step of one of the five pointer events
PointerActivity ==
    \/ \E id \in PointerIds, x \in Xs : PointerDown(id, x)
    \/ \E x \in Xs : PointerMove(x)
    \/ \E x \in Xs : PointerUp(x)
    \/ PointerCancel
    \/ \E x \in Xs : PointerLeave(x)

\* C12: a pointer event received with the modal closed leaves the cursor shown
\* and, unless it opened the modal, the idle countdown running; and the cursor
\* is hidden by no step but the expiry of the countdown
C12_PointerActivityShowsCursor ==
    [][/\ (mounted /\ ~isModalOpen /\ PointerActivity)
          => (~cursorHidden' /\ (isModalOpen' \/ cursorTimer'))
       /\ (~cursorHidden /\ cursorHidden') => (cursorTimer /\ CursorTimeout)]_vars

\* every variable of the component: all but the trace of the step
refs == <<slidesSource, containerWidth, allowTransition, trackPosition, currentIndex,
          dragOffset, isAnimating, isPointerDown, isDragging, pointerId, dragStartX,
          isModalOpen, isStartingSession, modalError, cursorHidden, cursorTimer,
          preloadCache, rafPending, fetches, mounted>>

\* C13 as stated: Escape with the modal open closes it and clears the error
\* text; Escape with the modal closed changes nothing
C13_EscapeCloses ==
    [][(mounted /\ KeyDown("Escape", FALSE))
       => IF isModalOpen
          THEN ~isModalOpen' /\ modalError' = ""
          ELSE UNCHANGED refs]_vars

\* C13 amended: Escape closes the open modal and clears the error text unless
\* a session-start request is in flight; with a request in flight, as with the
\* modal closed, it changes nothing
C13_EscapeClosesUnlessBusy ==
    [][(mounted /\ KeyDown("Escape", FALSE))
       => IF isModalOpen /\ ~isStartingSession
          THEN ~isModalOpen' /\ modalError' = ""
          ELSE UNCHANGED refs]_vars

\* the modal has just been closed during a gesture that was begun before it
\* was opened: by Escape, the modal's backdrop covering the carousel
C13_Witness ==
    /\ ~isModalOpen
    /\ modalError = ""
    /\ isPointerDown
    /\ effects = <<<<"closeModal", 0>>>>

\* C14: once the startup frame has run, whenever no pointer is down and the
\* modal is closed the transition is enabled and the drag offset is 0
C14_TransitionRestoredAfterGesture ==
    (mounted /\ ~rafPending /\ ~isPointerDown /\ ~isModalOpen)
    => (allowTransition /\ dragOffset = 0)

\* the calls of goNext and goPrev a step makes
NavigationCalls(trace) == Count(trace, "goNext") + Count(trace, "goPrev")

\* what a pointer-up that ends a drag (dragging mode, two slides or more) does
\* under a threshold of a quarter of th4 pixels: at or beyond it one call of
\* goNext or goPrev, under it none, the index kept and the track snapped back
DragDecidedBy(th4) ==
    \A x \in DragXs :
        (/\ isPointerDown /\ isDragging
         /\ totalSlides(State) >= 2
         /\ Entered("handlePointerUp") /\ PointerUp(x))
        => IF 4 * Abs(x - dragStartX) >= th4
           THEN NavigationCalls(effects') = 1
           ELSE /\ NavigationCalls(effects') = 0
                /\ currentIndex' = currentIndex
                /\ allowTransition'
                /\ dragOffset' = 0

\* C15 as stated: the threshold of the pointer-up is min(160, width / 4) for
\* every width from 0 up
C15_ThresholdIsQuarterWidth ==
    [][DragDecidedBy(Min(4 * MaxDragThreshold, containerWidth))]_vars

\* C15 amended: the threshold is min(160, width / 4) for every width above 0,
\* and 160 for the width 0
C15_ThresholdIsQuarterWidthOrDefault ==
    [][DragDecidedBy(IF containerWidth = 0
                     THEN 4 * MaxDragThreshold
                     ELSE Min(4 * MaxDragThreshold, containerWidth))]_vars

\* in a container of width 0 a drag of more than 20px has just been released
\* under the threshold: snapped back, no navigation, no modal
C15_Witness ==
    /\ containerWidth = 0
    /\ slidesSource = ScenarioSlides
    /\ ~isModalOpen
    /\ allowTransition
    /\ effects = <<<<"handlePointerUp", 0>>, <<"release", 1>>>>

\* what a pointer-move during a gesture does, by the claim: the index and the
\* modal are left alone; dragging mode is on after it exactly when it was on
\* before or the displacement exceeds 20px; entering it clears the animating
\* flag; the drag offset is the displacement in dragging mode and 0 before
MoveFollowsPointer(x) ==
    LET deltaX == x - dragStartX
    IN  /\ currentIndex' = currentIndex
        /\ isModalOpen' = isModalOpen
        /\ Count(effects', "open") = 0
        /\ isDragging' = (isDragging \/ Abs(deltaX) > TapSlop)
        /\ (~isDragging /\ isDragging') => ~isAnimating'
        /\ dragOffset' = (IF isDragging' THEN deltaX ELSE 0)

\* C16 as stated: every pointer-move of a gesture follows the pointer
C16_MoveFollowsPointer ==
    [][\A x \in Xs :
          (mounted /\ isPointerDown /\ PointerMove(x)) => MoveFollowsPointer(x)]_vars

\* C16 amended: every pointer-move of a gesture follows the pointer while the
\* modal is closed; under an open modal a pointer-move changes nothing
C16_MoveFollowsPointerUnlessModal ==
    [][\A x \in Xs :
          (mounted /\ isPointerDown /\ PointerMove(x))
          => IF isModalOpen THEN UNCHANGED refs ELSE MoveFollowsPointer(x)]_vars

\* a drag begun at 0 that went beyond 20px has come back to 20px: the offset
\* still follows the pointer
C16_Witness ==
    /\ isPointerDown
    /\ isDragging
    /\ ~isModalOpen
    /\ dragStartX = 0
    /\ dragOffset = TapSlop
    /\ effects = <<>>

\* C17: a step taken with the modal open leaves the current index unchanged
C17_IndexFrozenWhileModalOpen ==
    [][isModalOpen => currentIndex' = currentIndex]_vars

\* C18: a request in flight implies the modal open, and so does an error text
\* on display; a close request while busy changes nothing, and a request is
\* issued only from an open modal
C18_BusyImpliesModalOpen ==
    /\ [](isStartingSession => isModalOpen)
    /\ [](modalError # "" => isModalOpen)
    /\ [][/\ (isStartingSession /\ Entered("closeModal")) => UNCHANGED refs
          /\ Count(effects', "fetch") > 0 => isModalOpen]_vars

\* Escape has just been ignored: a request is in flight under the open modal
C18_Witness ==
    /\ isStartingSession
    /\ isModalOpen
    /\ Len(fetches) = 1
    /\ effects = <<<<"closeModal", 0>>>>

\* C19: dragging implies a pointer down, and a drag offset other than 0
\* implies dragging
C19_GestureFlagsConsistent ==
    /\ isDragging => isPointerDown
    /\ dragOffset # 0 => isDragging

\* a drag to the right past the threshold has just been released at the first
\* slide, where goPrev refused it: the track is not left displaced
C19_Witness ==
    /\ currentIndex = 0
    /\ ~isPointerDown
    /\ ~isDragging
    /\ dragOffset = 0
    /\ effects = <<<<"handlePointerUp", 0>>, <<"release", 1>>, <<"goPrev", 0>>>>

\* the sources of the current slide of s and of its two neighbours, wrapping
NeighbourSources(s) ==
    LET total == totalSlides(s)
    IN  {SlideSrc(s.currentIndex),
         SlideSrc((s.currentIndex + 1) % total),
         SlideSrc((s.currentIndex - 1 + total) % total)}

\* C20: a step that changes the index of a carousel of real slides leaves the
\* sources of the current, the next and the previous slide in the preload
\* cache, and requests no source that was in the cache before it
C20_NeighboursCachedAfterPreload ==
    [][(hasRealSlides(State) /\ currentIndex' # currentIndex)
       => /\ NeighbourSources(State') \subseteq SeqToSet(preloadCache')
          /\ \A src \in SeqToSet(ArgsOf(effects', "preload")) :
                 src \notin SeqToSet(preloadCache)]_vars

====
